---- MODULE Spec2Model ----
(***************************************************************************)
(* A model of the Kinesis shard advisor's two engines:                     *)
(*   src/src/lib/kinesis.ts   hashKeyToShardIndex, summarizeDistribution   *)
(*   src/src/lib/regexGen.ts  the pattern scanner, the string generator    *)
(*                            and generateMany                             *)
(*                                                                         *)
(* Four specifications share the module, one per entry point; each leaves  *)
(* the other entry points' variables at their initial values:              *)
(*   SpecShard    hashKeyToShardIndex(hashKey, shardCount)                 *)
(*   SpecSummary  summarizeDistribution(shardCount, shardIndexes)          *)
(*   SpecScan     generateFromRegexLikePattern(pattern), one scan          *)
(*                iteration per step, then the generation                  *)
(*   SpecMany     generateMany(pattern, count), one loop iteration a step  *)
(***************************************************************************)
EXTENDS Integers, Sequences, FiniteSets, TLC

VARIABLES
  \* hashKeyToShardIndex
  hashKey,       \* the bigint argument
  shardCount,    \* the number argument
  n,             \* kinesis.ts:13, BigInt(Math.floor(shardCount))
  shardResult,   \* what the call returned or threw
  \* summarizeDistribution
  sdShardCount,  \* the shardCount argument
  shardIndexes,  \* the shardIndexes argument
  summary,       \* the returned DistributionSummary
  \* generateFromRegexLikePattern
  pattern,       \* the pattern argument, a sequence of characters
  scan,          \* the scanner: cursor, sub-scan, pieces so far
  out,           \* the generated string
  iters,         \* loop iterations the scan has run
  \* generateMany
  count,         \* the count argument
  gm             \* generateMany's locals: n, i, out

vars == <<hashKey, shardCount, n, shardResult, sdShardCount, shardIndexes,
          summary, pattern, scan, out, iters, count, gm>>

shardVars == <<hashKey, shardCount, n, shardResult>>
summaryVars == <<sdShardCount, shardIndexes, summary>>
scanVars == <<pattern, scan, out, iters>>
manyVars == <<count, gm>>

(***************************************************************************)
(* Natural numbers of any size (bigint, and the integers a double holds)   *)
(* are sequences of limbs, digits in base 256, least significant first,    *)
(* with no high zero limb: <<>> is 0, <<1>> is 1, <<0, 1>> is 256.         *)
(***************************************************************************)
RECURSIVE TwoTo(_)
TwoTo(e) == IF e = 0 THEN 1 ELSE 2 * TwoTo(e - 1)

LimbBase == TwoTo(8)

Limb(a, i) == IF i >= 1 /\ i <= Len(a) THEN a[i] ELSE 0

RECURSIVE Norm(_)
Norm(a) == IF a = <<>> \/ a[Len(a)] # 0 THEN a ELSE Norm(SubSeq(a, 1, Len(a) - 1))

RECURSIVE NatOfInt(_)
NatOfInt(k) == IF k = 0 THEN <<>> ELSE <<k % LimbBase>> \o NatOfInt(k \div LimbBase)

RECURSIVE AddLimbs(_, _, _, _)
AddLimbs(a, b, i, c) ==
  IF i > Len(a) /\ i > Len(b)
  THEN IF c = 0 THEN <<>> ELSE <<c>>
  ELSE LET s == Limb(a, i) + Limb(b, i) + c
       IN  <<s % LimbBase>> \o AddLimbs(a, b, i + 1, s \div LimbBase)

NatAdd(a, b) == Norm(AddLimbs(a, b, 1, 0))

\* a times the single limb d
RECURSIVE MulLimb(_, _, _, _)
MulLimb(a, d, i, c) ==
  IF i > Len(a)
  THEN IF c = 0 THEN <<>> ELSE <<c>>
  ELSE LET s == a[i] * d + c
       IN  <<s % LimbBase>> \o MulLimb(a, d, i + 1, s \div LimbBase)

RECURSIVE NatMul(_, _)
NatMul(a, b) ==
  IF a = <<>> \/ b = <<>> THEN <<>>
  ELSE LET high == NatMul(a, Tail(b))
       IN  NatAdd(Norm(MulLimb(a, Head(b), 1, 0)),
                  IF high = <<>> THEN <<>> ELSE <<0>> \o high)

RECURSIVE LessFrom(_, _, _)
LessFrom(a, b, i) ==
  IF i = 0 THEN FALSE
  ELSE IF a[i] # b[i] THEN a[i] < b[i]
  ELSE LessFrom(a, b, i - 1)

NatLess(a, b) ==
  IF Len(a) # Len(b) THEN Len(a) < Len(b) ELSE LessFrom(a, b, Len(a))

\* The bits of a natural number, least significant first, and back.
BitsOf(a) ==
  LET all == [k \in 1..(8 * Len(a)) |-> (a[(k - 1) \div 8 + 1] \div TwoTo((k - 1) % 8)) % 2]
      top == IF a = <<>> THEN 0
             ELSE 8 * (Len(a) - 1) + (CHOOSE w \in 1..8 : TwoTo(w - 1) <= a[Len(a)] /\ a[Len(a)] < TwoTo(w))
  IN  SubSeq(all, 1, top)

BitAt(bits, k) == IF k >= 1 /\ k <= Len(bits) THEN bits[k] ELSE 0

OfBits(bits) ==
  Norm([j \in 1..((Len(bits) + 7) \div 8) |->
          BitAt(bits, 8 * j - 7) + 2 * BitAt(bits, 8 * j - 6) + 4 * BitAt(bits, 8 * j - 5)
          + 8 * BitAt(bits, 8 * j - 4) + 16 * BitAt(bits, 8 * j - 3) + 32 * BitAt(bits, 8 * j - 2)
          + 64 * BitAt(bits, 8 * j - 1) + 128 * BitAt(bits, 8 * j)])

Zeros(k) == [i \in 1..k |-> 0]
Ones(k) == [i \in 1..k |-> 1]

\* 2^e
Pow2(e) == OfBits(Zeros(e) \o <<1>>)

\* floor(a / 2^k)
NatShiftRight(a, k) ==
  LET bits == BitsOf(a)
  IN  IF k >= Len(bits) THEN <<>> ELSE OfBits(SubSeq(bits, k + 1, Len(bits)))

(***************************************************************************)
(* A JavaScript number is NaN, an infinity, or a finite value              *)
(* (-1)^neg * (int + half/2): the integers and the half-integers are all   *)
(* the finite values the model draws.                                      *)
(***************************************************************************)
NaN == [kind |-> "NaN"]
PosInfinity == [kind |-> "Infinity"]
NegInfinity == [kind |-> "-Infinity"]
Fin(neg, int, half) == [kind |-> "fin", neg |-> neg, int |-> int, half |-> half]
NumOfInt(k) == IF k < 0 THEN Fin(TRUE, NatOfInt(-k), 0) ELSE Fin(FALSE, NatOfInt(k), 0)
\* k/2 as a number
NumOfHalves(k) ==
  IF k < 0 THEN Fin(TRUE, NatOfInt((-k) \div 2), (-k) % 2)
  ELSE Fin(FALSE, NatOfInt(k \div 2), k % 2)

isFinite(x) == x.kind = "fin"
IsZero(x) == isFinite(x) /\ x.int = <<>> /\ x.half = 0
IsInteger(x) == isFinite(x) /\ x.half = 0

\* x <= 0, as JavaScript compares: false for NaN
LeqZero(x) ==
  CASE x.kind = "NaN" -> FALSE
    [] x.kind = "Infinity" -> FALSE
    [] x.kind = "-Infinity" -> TRUE
    [] OTHER -> x.neg \/ IsZero(x)

\* Math.floor
MathFloor(x) ==
  IF ~isFinite(x) THEN x
  ELSE IF x.half = 0 THEN x
  ELSE IF x.neg THEN Fin(TRUE, NatAdd(x.int, <<1>>), 0)
  ELSE Fin(FALSE, x.int, 0)

(***************************************************************************)
(* kinesis.ts: hashKeyToShardIndex                                         *)
(***************************************************************************)
KeyspaceBits == 128
MantissaBits == 53

\* Number(bigint): the nearest double, ties to the even mantissa.  A double
\* holds MantissaBits significant bits; the result is again an integer.
Number(a) ==
  LET bits == BitsOf(a)
  IN  IF Len(bits) <= MantissaBits THEN a
      ELSE LET s == Len(bits) - MantissaBits
               mant == OfBits(SubSeq(bits, s + 1, Len(bits)))
               sticky == \E i \in 1..(s - 1) : bits[i] = 1
               up == bits[s] = 1 /\ (sticky \/ bits[s + 1] = 1)
               rounded == IF up THEN NatAdd(mant, <<1>>) ELSE mant
           IN  OfBits(Zeros(s) \o BitsOf(rounded))

\* BigInt(Math.floor(shardCount)) of a shardCount that passed the guard
FloorToBigInt(x) == IF x.kind = "fin" THEN MathFloor(x).int ELSE <<>>

\* a local that no statement has assigned yet
Unset == [set |-> FALSE]

hashKeyToShardIndex(h, sc) ==
  IF ~isFinite(sc) \/ LeqZero(sc)
  THEN [status |-> "threw", error |-> "Invalid shardCount", n |-> Unset]
  ELSE LET bn == FloorToBigInt(sc)
       IN  [status |-> "returned",
            value |-> Number(NatShiftRight(NatMul(h, bn), KeyspaceBits)),
            n |-> [set |-> TRUE, value |-> bn]]

\* The arguments the model draws.
HashTopBits == 3
MaxSmallShards == 8
LargeSteps == 2

\* top * 2^(128 - HashTopBits), plus every lower bit set when low = 1
HashKeyOf(top, low) ==
  OfBits([i \in 1..(KeyspaceBits - HashTopBits) |-> low]
         \o [i \in 1..HashTopBits |-> (top \div TwoTo(i - 1)) % 2])

HashKeys == {HashKeyOf(top, low) : top \in 0..(TwoTo(HashTopBits) - 1), low \in {0, 1}}
             \cup {<<1>>}

MaxHashKey == OfBits(Ones(KeyspaceBits))

\* -1, -1/2, 0, 1/2, 1, ..., MaxSmallShards + 1/2; integers from 2^53 up,
\* where the doubles are the even integers; NaN and the infinities.
ShardCounts ==
  {NumOfHalves(k) : k \in (-2)..(2 * MaxSmallShards + 1)}
    \cup {Fin(FALSE, NatAdd(Pow2(MantissaBits), NatOfInt(2 * k)), 0) : k \in 0..LargeSteps}
    \cup {NaN, PosInfinity, NegInfinity}

ShardIdle == [status |-> "idle"]

ShardUncalled ==
  /\ hashKey = <<>>
  /\ shardCount = NumOfInt(1)
  /\ n = Unset
  /\ shardResult = ShardIdle

CallHashKeyToShardIndex ==
  /\ shardResult = ShardIdle
  /\ \E h \in HashKeys, sc \in ShardCounts :
       LET r == hashKeyToShardIndex(h, sc)
       IN  /\ hashKey' = h
           /\ shardCount' = sc
           /\ n' = r.n
           /\ shardResult' = IF r.status = "threw"
                             THEN [status |-> "threw", error |-> r.error]
                             ELSE [status |-> "returned", value |-> r.value]
  /\ UNCHANGED <<summaryVars, scanVars, manyVars>>

(***************************************************************************)
(* kinesis.ts: summarizeDistribution.  counts is 1-based here: counts[i+1] *)
(* is the count of shard i.  shardCount ranges over the positive integers, *)
(* what the caller passes (Math.max(1, Math.floor(...))).                   *)
(***************************************************************************)
\* CountLoop with idx > 0 for idx >= 0: shard 0 is never counted
RECURSIVE CountLoopSkipsShardZero(_, _, _, _)
CountLoopSkipsShardZero(counts, sc, idxs, k) ==
  IF k > Len(idxs) THEN counts
  ELSE LET idx == idxs[k]
       IN  IF idx > 0 /\ idx < sc
           THEN CountLoopSkipsShardZero([counts EXCEPT ![idx + 1] = @ + 1], sc, idxs, k + 1)
           ELSE CountLoopSkipsShardZero(counts, sc, idxs, k + 1)

\* the for loop of lines 51-53, from the k-th index on
RECURSIVE CountLoop(_, _, _, _)
CountLoop(counts, sc, idxs, k) ==
  IF k > Len(idxs) THEN counts
  ELSE LET idx == idxs[k]
       IN  IF idx >= 0 /\ idx < sc
           THEN CountLoop([counts EXCEPT ![idx + 1] = @ + 1], sc, idxs, k + 1)
           ELSE CountLoop(counts, sc, idxs, k + 1)

\* ExceedsMax with >= for >: the last of several largest counts wins
ExceedsMaxOrEquals(c, maxCount) == maxCount = NegInfinity \/ c >= maxCount.value

\* counts[i] > maxCount, where maxCount starts as -Infinity
ExceedsMax(c, maxCount) == maxCount = NegInfinity \/ c > maxCount.value

\* the for loop of lines 58-63, from shard i on
RECURSIVE MaxLoop(_, _, _, _)
MaxLoop(counts, i, maxCount, maxShard) ==
  IF i >= Len(counts) THEN [maxCount |-> maxCount, maxShard |-> maxShard]
  ELSE IF ExceedsMax(counts[i + 1], maxCount)
       THEN MaxLoop(counts, i + 1, [kind |-> "int", value |-> counts[i + 1]], i)
       ELSE MaxLoop(counts, i + 1, maxCount, maxShard)

\* the for loop of lines 65-68 over exact fractions: the sum of
\* (counts[i] - totalKeys/shardCount)^2, times shardCount^2
RECURSIVE VarianceLoop(_, _, _, _)
VarianceLoop(counts, sc, totalKeys, i) ==
  IF i >= Len(counts) THEN 0
  ELSE LET d == counts[i + 1] * sc - totalKeys
       IN  d * d + VarianceLoop(counts, sc, totalKeys, i + 1)

\* avg and variance are fractions num/den; stddev is Math.sqrt(variance)
summarizeDistribution(sc, idxs) ==
  LET counts == CountLoop([i \in 1..sc |-> 0], sc, idxs, 1)
      totalKeys == Len(idxs)
      m == MaxLoop(counts, 0, NegInfinity, 0)
  IN  [shardCount |-> sc,
       totalKeys |-> totalKeys,
       counts |-> counts,
       maxCount |-> m.maxCount,
       maxShard |-> m.maxShard,
       avg |-> [num |-> totalKeys, den |-> sc],
       variance |-> [num |-> VarianceLoop(counts, sc, totalKeys, 0), den |-> sc * sc * sc]]

\* The arguments the model draws: every sequence of at most MaxKeys indexes
\* from -1 to MaxShards, one below and up to two above the valid range.
MaxShards == 3
MaxKeys == 4

IndexValues == (-1)..MaxShards

RECURSIVE SeqsUpTo(_, _)
SeqsUpTo(S, len) ==
  IF len = 0 THEN {<<>>}
  ELSE LET shorter == SeqsUpTo(S, len - 1)
       IN  shorter \cup {Append(q, x) : q \in shorter, x \in S}

NoSummary == [shardCount |-> 0]

SummaryUncalled ==
  /\ sdShardCount = 0
  /\ shardIndexes = <<>>
  /\ summary = NoSummary

CallSummarizeDistribution ==
  /\ summary = NoSummary
  /\ \E sc \in 1..MaxShards, idxs \in SeqsUpTo(IndexValues, MaxKeys) :
       /\ sdShardCount' = sc
       /\ shardIndexes' = idxs
       /\ summary' = summarizeDistribution(sc, idxs)
  /\ UNCHANGED <<shardVars, scanVars, manyVars>>

(***************************************************************************)
(* regexGen.ts: characters.  A string is a sequence of one-character       *)
(* strings; charCodeAt and String.fromCharCode go through the ASCII table. *)
(***************************************************************************)
\* the character of code 96, which a string of this notation cannot hold
Grave == "grave"

Ascii ==
  <<" ", "!", "\"", "#", "$", "%", "&", "'", "(", ")", "*", "+", ",", "-", ".", "/",
    "0", "1", "2", "3", "4", "5", "6", "7", "8", "9", ":", ";", "<", "=", ">", "?",
    "@", "A", "B", "C", "D", "E", "F", "G", "H", "I", "J", "K", "L", "M", "N", "O",
    "P", "Q", "R", "S", "T", "U", "V", "W", "X", "Y", "Z", "[", "\\", "]", "^", "_",
    Grave, "a", "b", "c", "d", "e", "f", "g", "h", "i", "j", "k", "l", "m", "n", "o",
    "p", "q", "r", "s", "t", "u", "v", "w", "x", "y", "z", "{", "|", "}", "~">>

\* the code of " ", the first character of Ascii, less one
AsciiOffset == 31

charCodeAt(c) == AsciiOffset + (CHOOSE k \in 1..Len(Ascii) : Ascii[k] = c)
fromCharCode(k) == Ascii[k - AsciiOffset]

\* pattern[i], the cursor counting from 0; past the end it is undefined,
\* which equals no character
Undefined == "undefined"
At(pat, i) == IF i >= 0 /\ i < Len(pat) THEN pat[i + 1] ELSE Undefined

isDigit(c) == charCodeAt(c) >= charCodeAt("0") /\ charCodeAt(c) <= charCodeAt("9")

\* Number(n1) of a string of decimal digits
RECURSIVE NumberOfDigits(_)
NumberOfDigits(ds) ==
  IF ds = <<>> THEN 0
  ELSE 10 * NumberOfDigits(SubSeq(ds, 1, Len(ds) - 1)) + (charCodeAt(ds[Len(ds)]) - charCodeAt("0"))

\* expandRange; the caller throws when end < start
expandRange(a, b) ==
  LET start == charCodeAt(a)
      end == charCodeAt(b)
  IN  [k \in 1..(end - start + 1) |-> fromCharCode(start + k - 1)]

(***************************************************************************)
(* regexGen.ts: the scanner of generateFromRegexLikePattern, lines 115 to  *)
(* 157, with parseCharClass and parseQuantifier.  The scanner's state is a *)
(* record: the cursor i, the pieces pushed so far, the locals of the       *)
(* sub-scan under way, and pc, the loop whose head the scanner stands at:  *)
(*   "start"    line 116, before the check for groups and alternation      *)
(*   "main"     line 123, the head of the main loop                        *)
(*   "class"    line 42, the head of parseCharClass's loop                 *)
(*   "quant"    line 75, parseQuantifier called                            *)
(*   "digits1"  line 87, the head of the loop that reads n1                *)
(*   "digits2"  line 99, the head of the loop that reads n2                *)
(*   "parsed"   line 159, the main loop left                               *)
(*   "done"     line 176, the string returned                              *)
(*   "threw"    an Error thrown, its message in error                      *)
(***************************************************************************)
PlusStarMax == 16
OpenEndedSpan == 16
MaxQuantifier == 100000

NoAtom == [kind |-> "none"]

ScanStart ==
  [pc |-> "start", i |-> 0, pieces |-> <<>>, chars |-> <<>>, atom |-> NoAtom,
   n1 |-> <<>>, n2 |-> <<>>, min |-> 0, max |-> 0, error |-> ""]

Throw(st, msg) == [st EXCEPT !.pc = "threw", !.error = msg]

\* HasGroupOrAlternation without the test for "|"
HasGroupOnly(pat) == \E k \in 1..Len(pat) : pat[k] \in {"(", ")"}

\* lines 116-118
HasGroupOrAlternation(pat) == \E k \in 1..Len(pat) : pat[k] \in {"(", ")", "|"}

CheckUnsupported(pat, st) ==
  IF HasGroupOrAlternation(pat)
  THEN Throw(st, "Groups and alternation are not supported in this generator")
  ELSE [st EXCEPT !.pc = "main"]

\* line 156, and back to the head of the main loop
PushPiece(st, min, max, nextIndex) ==
  [st EXCEPT !.pieces = Append(@, [atom |-> st.atom, min |-> min, max |-> max]),
             !.i = nextIndex, !.min = min, !.max = max, !.pc = "main"]

\* QuantifierClose with the size test on min for max
QuantifierCloseTestsMin(pat, st, min, max) ==
  LET bounds == [st EXCEPT !.min = min, !.max = max]
  IN  IF At(pat, st.i) # "}" THEN Throw(bounds, "Invalid quantifier: expected }")
      ELSE IF min < 0 \/ max < min
           THEN Throw([bounds EXCEPT !.i = st.i + 1], "Invalid quantifier bounds")
      ELSE IF min > MaxQuantifier
           THEN Throw([bounds EXCEPT !.i = st.i + 1], "Quantifier too large")
      ELSE PushPiece(st, min, max, st.i + 1)

\* lines 106-112: the closing brace and the bounds
QuantifierClose(pat, st, min, max) ==
  LET bounds == [st EXCEPT !.min = min, !.max = max]
  IN  IF At(pat, st.i) # "}" THEN Throw(bounds, "Invalid quantifier: expected }")
      ELSE IF min < 0 \/ max < min
           THEN Throw([bounds EXCEPT !.i = st.i + 1], "Invalid quantifier bounds")
      ELSE IF max > MaxQuantifier
           THEN Throw([bounds EXCEPT !.i = st.i + 1], "Quantifier too large")
      ELSE PushPiece(st, min, max, st.i + 1)

\* lines 75-86: parseQuantifier up to its first loop
parseQuantifier(pat, st) ==
  LET ch == At(pat, st.i)
  IN  IF st.i >= Len(pat) THEN PushPiece(st, 1, 1, st.i)
      ELSE IF ch = "?" THEN PushPiece(st, 0, 1, st.i + 1)
      ELSE IF ch = "+" THEN PushPiece(st, 1, PlusStarMax, st.i + 1)
      ELSE IF ch = "*" THEN PushPiece(st, 0, PlusStarMax, st.i + 1)
      ELSE IF ch # "{" THEN PushPiece(st, 1, 1, st.i)
      ELSE [st EXCEPT !.i = st.i + 1, !.n1 = <<>>, !.n2 = <<>>, !.pc = "digits1"]

\* ReadDigits1 without the i++ of line 89
ReadDigits1NoAdvance(pat, st) ==
  IF st.i < Len(pat) /\ isDigit(At(pat, st.i))
  THEN [st EXCEPT !.n1 = Append(@, At(pat, st.i))]
  ELSE IF Len(st.n1) = 0
       THEN Throw(st, "Invalid quantifier: expected number after {")
  ELSE LET min == NumberOfDigits(st.n1)
       IN  IF At(pat, st.i) = ","
           THEN [st EXCEPT !.min = min, !.max = min, !.i = st.i + 1, !.n2 = <<>>,
                           !.pc = "digits2"]
           ELSE QuantifierClose(pat, st, min, min)

\* lines 87-97: one iteration of the loop that reads n1, or what follows it
ReadDigits1(pat, st) ==
  IF st.i < Len(pat) /\ isDigit(At(pat, st.i))
  THEN [st EXCEPT !.n1 = Append(@, At(pat, st.i)), !.i = st.i + 1]
  ELSE IF Len(st.n1) = 0
       THEN Throw(st, "Invalid quantifier: expected number after {")
  ELSE LET min == NumberOfDigits(st.n1)
       IN  IF At(pat, st.i) = ","
           THEN [st EXCEPT !.min = min, !.max = min, !.i = st.i + 1, !.n2 = <<>>,
                           !.pc = "digits2"]
           ELSE QuantifierClose(pat, st, min, min)

\* lines 99-103: one iteration of the loop that reads n2, or what follows it
ReadDigits2(pat, st) ==
  IF st.i < Len(pat) /\ isDigit(At(pat, st.i))
  THEN [st EXCEPT !.n2 = Append(@, At(pat, st.i)), !.i = st.i + 1]
  ELSE QuantifierClose(pat, st, st.min,
                       IF Len(st.n2) = 0 THEN st.min + OpenEndedSpan
                       ELSE NumberOfDigits(st.n2))

\* lines 42-71: one iteration of parseCharClass's loop, or the throw after it
parseCharClassLoop(pat, st) ==
  LET i == st.i
      ch == At(pat, i)
  IN  IF i >= Len(pat) THEN Throw(st, "Unterminated character class")
      ELSE IF ch = "]"
           THEN IF Len(st.chars) = 0
                THEN Throw([st EXCEPT !.i = i + 1], "Empty character class [] is not supported")
                ELSE [st EXCEPT !.i = i + 1, !.pc = "quant",
                                !.atom = [kind |-> "charclass", chars |-> st.chars]]
      ELSE IF ch = "\\"
           THEN IF i + 1 >= Len(pat)
                THEN Throw([st EXCEPT !.i = i + 1], "Invalid escape at end of pattern")
                ELSE [st EXCEPT !.chars = Append(@, At(pat, i + 1)), !.i = i + 2]
      ELSE IF i + 2 < Len(pat) /\ At(pat, i + 1) = "-" /\ At(pat, i + 2) # "]"
           THEN IF charCodeAt(At(pat, i + 2)) < charCodeAt(ch)
                THEN Throw(st, "Invalid range")
                ELSE [st EXCEPT !.chars = @ \o expandRange(ch, At(pat, i + 2)), !.i = i + 3]
      ELSE [st EXCEPT !.chars = Append(@, ch), !.i = i + 1]

\* lines 33-40: parseCharClass up to its loop; pattern[i] is "["
parseCharClass(pat, st) ==
  IF At(pat, st.i) # "[" THEN Throw(st, "Expected [")
  ELSE IF At(pat, st.i + 1) = "^"
  THEN Throw([st EXCEPT !.i = st.i + 1],
             "Negated character classes ([^...]) are not supported")
  ELSE [st EXCEPT !.i = st.i + 1, !.chars = <<>>, !.pc = "class"]

\* lines 142-145
EscapeAtom(esc) ==
  IF esc = "d" THEN [kind |-> "digit"]
  ELSE IF esc = "w" THEN [kind |-> "word"]
  ELSE IF esc = "s" THEN [kind |-> "space"]
  ELSE [kind |-> "literal", value |-> esc]

\* lines 123-151: the head of the main loop and the atom of one iteration
MainLoop(pat, st) ==
  LET i == st.i
      ch == At(pat, i)
  IN  IF i >= Len(pat) THEN [st EXCEPT !.pc = "parsed"]
      ELSE IF ch = "^" \/ ch = "$" THEN [st EXCEPT !.i = i + 1]
      ELSE IF ch = "[" THEN parseCharClass(pat, st)
      ELSE IF ch = "\\"
           THEN IF i + 1 >= Len(pat)
                THEN Throw([st EXCEPT !.i = i + 1], "Invalid escape at end of pattern")
                ELSE [st EXCEPT !.atom = EscapeAtom(At(pat, i + 1)), !.i = i + 2,
                                !.pc = "quant"]
      ELSE IF ch \in {"{", "}", "?", "+", "*"} THEN Throw(st, "Dangling quantifier")
      ELSE [st EXCEPT !.atom = [kind |-> "literal", value |-> ch], !.i = i + 1,
                      !.pc = "quant"]

\* one step of the scanner
ScanStep(pat, st) ==
  CASE st.pc = "start" -> CheckUnsupported(pat, st)
    [] st.pc = "main" -> MainLoop(pat, st)
    [] st.pc = "class" -> parseCharClassLoop(pat, st)
    [] st.pc = "quant" -> parseQuantifier(pat, st)
    [] st.pc = "digits1" -> ReadDigits1(pat, st)
    [] st.pc = "digits2" -> ReadDigits2(pat, st)
    [] OTHER -> st

\* whether the step from st is one iteration of a loop: the main loop's, the
\* class loop's or a digit loop's
IsIteration(pat, st) ==
  \/ st.pc \in {"main", "class"} /\ st.i < Len(pat)
  \/ st.pc \in {"digits1", "digits2"} /\ st.i < Len(pat) /\ isDigit(At(pat, st.i))

\* the scanner run to its end: lines 115-157 as one function
RECURSIVE RunScan(_, _)
RunScan(pat, st) ==
  IF st.pc \in {"parsed", "threw"} THEN st ELSE RunScan(pat, ScanStep(pat, st))

compile(pat) == RunScan(pat, ScanStart)

(***************************************************************************)
(* regexGen.ts: the generation, lines 159-176.  Math.random() returns      *)
(* r / RandDen for a numerator r the model draws from 0..RandDen-1.  A     *)
(* piece is generated when its repeat count is at most MaxRepeat and, for  *)
(* an atom that draws each character, at most MaxDraws.                    *)
(***************************************************************************)
RandDen == 4
MaxDraws == 2
MaxRepeat == 12

RandomNumerators == 0..(RandDen - 1)

wordChars ==
  <<"a", "b", "c", "d", "e", "f", "g", "h", "i", "j", "k", "l", "m", "n", "o", "p",
    "q", "r", "s", "t", "u", "v", "w", "x", "y", "z", "A", "B", "C", "D", "E", "F",
    "G", "H", "I", "J", "K", "L", "M", "N", "O", "P", "Q", "R", "S", "T", "U", "V",
    "W", "X", "Y", "Z", "0", "1", "2", "3", "4", "5", "6", "7", "8", "9", "_">>
digits == <<"0", "1", "2", "3", "4", "5", "6", "7", "8", "9">>
spaces == <<" ", "\t">>

\* lines 16-20 on integer bounds, with Math.random() = r / RandDen
randInt(min, max, r) == min + (r * (max - min + 1)) \div RandDen

\* line 22
pick(arr, r) == arr[randInt(0, Len(arr) - 1, r) + 1]

\* RepeatCounts drawing from [min, max + 1]
RepeatCountsPastMax(piece) ==
  IF piece.min = piece.max THEN {piece.min}
  ELSE {randInt(piece.min, piece.max + 1, r) : r \in RandomNumerators}

\* line 165: the repeat counts a piece can get
RepeatCounts(piece) ==
  IF piece.min = piece.max THEN {piece.min}
  ELSE {randInt(piece.min, piece.max, r) : r \in RandomNumerators}

\* lines 166-173: the blocks of cnt characters a piece can add to out
Blocks(piece, cnt) ==
  LET a == piece.atom
      drawn(arr) == IF cnt > MaxDraws THEN {}
                    ELSE {[j \in 1..cnt |-> pick(arr, t[j])] : t \in [1..cnt -> RandomNumerators]}
  IN  IF cnt > MaxRepeat THEN {}
      ELSE IF a.kind = "literal" THEN {[j \in 1..cnt |-> a.value]}
      ELSE IF a.kind = "charclass" THEN drawn(a.chars)
      ELSE IF a.kind = "digit" THEN drawn(digits)
      ELSE IF a.kind = "word" THEN drawn(wordChars)
      ELSE IF a.kind = "space" THEN drawn(spaces)
      ELSE {<<>>}

PieceBlocks(piece) == UNION {Blocks(piece, cnt) : cnt \in RepeatCounts(piece)}

\* lines 163-176: the strings the pieces from the k-th on can add
RECURSIVE GenerateFrom(_, _)
GenerateFrom(pieces, k) ==
  IF k > Len(pieces) THEN {<<>>}
  ELSE {b \o rest : b \in PieceBlocks(pieces[k]), rest \in GenerateFrom(pieces, k + 1)}

\* generateFromRegexLikePattern as one call: what it throws or returns
generateFromRegexLikePattern(pat) ==
  LET st == compile(pat)
  IN  IF st.pc = "threw" THEN {[threw |-> TRUE, error |-> st.error]}
      ELSE {[threw |-> FALSE, value |-> str] : str \in GenerateFrom(st.pieces, 1)}

(***************************************************************************)
(* The patterns the model draws: every concatenation of at most MaxTokens  *)
(* tokens, a token being one character or a fragment of several, and the   *)
(* longer patterns of the documentation and the user interface.            *)
(***************************************************************************)
MaxTokens == 2

CharTokens ==
  {<<c>> : c \in {"a", "[", "]", "-", "^", "\\", "{", "}", ",", "?", "+", "*",
                  "(", ")", "|", "0", "1"}}

FragmentTokens ==
  { <<"[", "a", "b", "]">>, <<"[", "a", "-", "c", "]">>,
    <<"\\", "d">>, <<"\\", "w">>, <<"\\", "s">>,
    <<"{", "2", "}">>, <<"{", "1", ",", "2", "}">>, <<"{", "2", ",", "1", "}">>,
    <<"{", "1", ",", "}">>, <<"{", "0", ",", "3", "}">> }

Tokens == CharTokens \cup FragmentTokens

RECURSIVE TokenStrings(_)
TokenStrings(k) ==
  IF k = 0 THEN {<<>>}
  ELSE LET shorter == TokenStrings(k - 1)
       IN  shorter \cup {q \o t : q \in shorter, t \in Tokens}

LongPatterns ==
  { <<"[", "A", "-", "C", "]", "{", "2", "}">>,
    <<"[", "A", "-", "Z", "0", "-", "9", "]", "{", "1", "7", "}">>,
    <<"[", "A", "-", "H", "J", "-", "N", "P", "R", "-", "Z", "0", "-", "9", "]", "{", "1", "7", "}">>,
    <<"(", "a", "|", "b", ")">>,
    <<"a", "{", "3", ",", "2", "}">>,
    <<"[", "z", "-", "a", "]">>,
    <<"^", "a", "+", "b", "?", "$">>,
    <<"a", "{", "2", "}", "b", "?", "[", "a", "b", "]", "{", "1", ",", "2", "}">>,
    <<"\\", "d", "{", "2", "}", "\\", "s", "?", "\\", "w">>,
    <<"[", "a", "\\", "]", "-", "]", "{", "0", ",", "2", "}">>,
    <<"a", "{", "1", ",", "2", "}", "(">>,
    <<"[", "a", "|", "b", "]", "*">>,
    <<"[", "a", "b", "{", "1", ",">>,
    <<"[", "a", "b", "]", "{", "1", ",", "2", "}">>,
    <<"a", "{", "1", "0", "0", "0", "0", "0", "}">>,
    <<"a", "{", "1", "0", "0", "0", "0", "1", "}">>,
    <<"a", "{", "9", "9", "9", "8", "4", ",", "}">>,
    <<"a", "{", "9", "9", "9", "8", "5", ",", "}">>,
    <<"a", "{", "0", ",", "1", "0", "0", "0", "0", "1", "}">>,
    <<"[", "a", "b", "]", "{", "0", ",", "1", "0", "0", "0", "0", "0", "}">>,
    <<"a", "{", "1", "0", "0", "0", "0", "1", ",", "5", "}">>,
    <<"a", "b", "$", "d", "2", "\\", "$">>,
    <<"a", "{", "1", "2", "b", "}">> }

Patterns == TokenStrings(MaxTokens) \cup LongPatterns

ScanUncalled ==
  /\ pattern = <<>>
  /\ scan = ScanStart
  /\ out = <<>>
  /\ iters = 0

\* one step of the scanner from the place pc names
ScanAt(pc) ==
  /\ scan.pc = pc
  /\ scan' = ScanStep(pattern, scan)
  /\ iters' = IF IsIteration(pattern, scan) THEN iters + 1 ELSE iters
  /\ UNCHANGED <<pattern, out, shardVars, summaryVars, manyVars>>

CheckSyntax == ScanAt("start")
MainLoopStep == ScanAt("main")
CharClassStep == ScanAt("class")
QuantifierStep == ScanAt("quant")
Digits1Step == ScanAt("digits1")
Digits2Step == ScanAt("digits2")

\* lines 159-176
Generate ==
  /\ scan.pc = "parsed"
  /\ \E str \in GenerateFrom(scan.pieces, 1) :
       /\ out' = str
       /\ scan' = [scan EXCEPT !.pc = "done"]
  /\ UNCHANGED <<pattern, iters, shardVars, summaryVars, manyVars>>

(***************************************************************************)
(* regexGen.ts: generateMany.  out is kept as its length and its last      *)
(* element.                                                                *)
(***************************************************************************)
MaxGenerate == 50000

\* x < y on numbers, as JavaScript compares: false when either is NaN
NumLess(x, y) ==
  CASE x.kind = "NaN" \/ y.kind = "NaN" -> FALSE
    [] x.kind = "Infinity" -> FALSE
    [] y.kind = "-Infinity" -> FALSE
    [] x.kind = "-Infinity" -> TRUE
    [] y.kind = "Infinity" -> TRUE
    [] x.neg /\ ~y.neg -> ~(IsZero(x) /\ IsZero(y))
    [] ~x.neg /\ y.neg -> FALSE
    [] ~x.neg -> NatLess(x.int, y.int) \/ (x.int = y.int /\ x.half < y.half)
    [] OTHER -> NatLess(y.int, x.int) \/ (x.int = y.int /\ y.half < x.half)

\* Math.min and Math.max of two numbers: NaN when either is NaN
MathMin(x, y) ==
  IF x.kind = "NaN" \/ y.kind = "NaN" THEN NaN ELSE IF NumLess(y, x) THEN y ELSE x
MathMax(x, y) ==
  IF x.kind = "NaN" \/ y.kind = "NaN" THEN NaN ELSE IF NumLess(x, y) THEN y ELSE x

\* ClampCount without Math.floor
ClampCountNoFloor(c) == MathMax(NumOfInt(0), MathMin(NumOfInt(MaxGenerate), c))

\* line 180
ClampCount(c) == MathMax(NumOfInt(0), MathMin(NumOfInt(MaxGenerate), MathFloor(c)))

\* The arguments the model draws.
MaxSmallCount == 3
CapSteps == 2

ManyPatterns ==
  { <<"a">>, <<"a", "?">>, <<"(">>, <<"a", "{", "3", ",", "2", "}">>, <<"[", "z", "-", "a", "]">> }

\* -5, -1/2, 0, 1/2, ..., MaxSmallCount + 1/2; the counts around the cap,
\* from 49999.5 on; 999999; NaN and the infinities
Counts ==
  {NumOfInt(-5), NumOfInt(999999), NaN, PosInfinity, NegInfinity}
    \cup {NumOfHalves(k) : k \in (-1)..(2 * MaxSmallCount + 1)}
    \cup {NumOfHalves(2 * MaxGenerate + k) : k \in (-1)..CapSteps}

ManyIdle == [pc |-> "idle", n |-> NaN, i |-> 0, outLen |-> 0, last |-> <<>>, error |-> ""]

ManyUncalled ==
  /\ count = NaN
  /\ gm = ManyIdle

\* lines 179-181
CallGenerateMany ==
  /\ gm.pc = "idle"
  /\ \E pat \in ManyPatterns, c \in Counts :
       /\ pattern' = pat
       /\ count' = c
       /\ gm' = [ManyIdle EXCEPT !.pc = "loop", !.n = ClampCount(c)]
  /\ UNCHANGED <<shardVars, summaryVars, scan, out, iters>>

\* line 182: one iteration of the loop
ManyIterate ==
  /\ gm.pc = "loop"
  /\ NumLess(NumOfInt(gm.i), gm.n)
  /\ \E r \in generateFromRegexLikePattern(pattern) :
       gm' = IF r.threw
             THEN [gm EXCEPT !.pc = "threw", !.error = r.error]
             ELSE [gm EXCEPT !.outLen = @ + 1, !.last = r.value, !.i = @ + 1]
  /\ UNCHANGED <<pattern, count, shardVars, summaryVars, scan, out, iters>>

\* lines 182-183: the loop left, out returned
ManyReturn ==
  /\ gm.pc = "loop"
  /\ ~NumLess(NumOfInt(gm.i), gm.n)
  /\ gm' = [gm EXCEPT !.pc = "returned"]
  /\ UNCHANGED <<pattern, count, shardVars, summaryVars, scan, out, iters>>

(***************************************************************************)
(* The specifications                                                      *)
(***************************************************************************)
InitShard == ShardUncalled /\ SummaryUncalled /\ ScanUncalled /\ ManyUncalled

NextShard == CallHashKeyToShardIndex

SpecShard == InitShard /\ [][NextShard]_vars

InitSummary == ShardUncalled /\ SummaryUncalled /\ ScanUncalled /\ ManyUncalled

NextSummary == CallSummarizeDistribution

SpecSummary == InitSummary /\ [][NextSummary]_vars

InitScan ==
  /\ ShardUncalled /\ SummaryUncalled /\ ManyUncalled
  /\ pattern \in Patterns
  /\ scan = ScanStart
  /\ out = <<>>
  /\ iters = 0

NextScan ==
  \/ CheckSyntax
  \/ MainLoopStep
  \/ CharClassStep
  \/ QuantifierStep
  \/ Digits1Step
  \/ Digits2Step
  \/ Generate

SpecScan == InitScan /\ [][NextScan]_vars

\* the scan is one synchronous call: a step that can be taken is taken
FairScan == SpecScan /\ WF_vars(NextScan)

InitMany == ShardUncalled /\ SummaryUncalled /\ ScanUncalled /\ ManyUncalled

NextMany ==
  \/ CallGenerateMany
  \/ ManyIterate
  \/ ManyReturn

SpecMany == InitMany /\ [][NextMany]_vars

Spec == SpecScan

(***************************************************************************)
(* The claims about hashKeyToShardIndex, under SpecShard                   *)
(***************************************************************************)
ShardCalled == shardResult.status # "idle"

\* C1: for every hash key in [0, 2^128 - 1] and every partition count p >= 1,
\* a positive integer, the call returns an index with 0 <= index < p; hash
\* key 0 maps to index 0 and hash key 2^128 - 1 maps to index p - 1.
C1_IndexInRange ==
  (ShardCalled /\ IsInteger(shardCount) /\ ~LeqZero(shardCount)) =>
    /\ shardResult.status = "returned"
    /\ NatLess(shardResult.value, shardCount.int)
    /\ (hashKey = <<>> => shardResult.value = <<>>)
    /\ (hashKey = MaxHashKey => NatAdd(shardResult.value, <<1>>) = shardCount.int)

\* C2: the call fails with the invalid-count error whenever the partition
\* count is not finite or is <= 0; for every other count, the values strictly
\* between 0 and 1 included, the count n that divides the keyspace is the
\* floor of the input and is an integer >= 1.
C2_FloorAtLeastOne ==
  ShardCalled =>
    IF shardCount.kind # "fin" \/ shardCount.neg
       \/ (shardCount.int = <<>> /\ shardCount.half = 0)
    THEN shardResult.status = "threw" /\ shardResult.error = "Invalid shardCount"
    ELSE /\ shardResult.status = "returned"
         /\ n.set
         /\ n.value = shardCount.int
         /\ NatLess(<<>>, n.value)

(***************************************************************************)
(* The claims about summarizeDistribution, under SpecSummary               *)
(***************************************************************************)
RECURSIVE SumSeq(_)
SumSeq(q) == IF q = <<>> THEN 0 ELSE Head(q) + SumSeq(Tail(q))

SummaryCalled == summary # NoSummary

InRangeIndexes == {k \in 1..Len(shardIndexes) : shardIndexes[k] \in 0..(sdShardCount - 1)}

\* C4 as stated: for every shardCount >= 1 and any sequence of integer
\* indexes, the returned counts sum to the returned totalKeys.
C4_CountsSumToTotal ==
  SummaryCalled => SumSeq(summary.counts) = summary.totalKeys

\* C4 as amended: totalKeys is the number of indexes, and the counts sum to
\* the number of indexes that lie in [0, shardCount), so they sum to
\* totalKeys exactly when every index lies in [0, shardCount).
C4_CountsSumToInRange ==
  SummaryCalled =>
    /\ summary.totalKeys = Len(shardIndexes)
    /\ Len(summary.counts) = sdShardCount
    /\ SumSeq(summary.counts) = Cardinality(InRangeIndexes)
    /\ (SumSeq(summary.counts) = summary.totalKeys
          <=> \A k \in 1..Len(shardIndexes) : shardIndexes[k] \in 0..(sdShardCount - 1))

\* a call whose indexes are all in range and hit shard 0 and the last shard,
\* one of them twice
C4_Witness ==
  /\ SummaryCalled
  /\ sdShardCount >= 2
  /\ Cardinality(InRangeIndexes) = Len(shardIndexes)
  /\ summary.counts[1] >= 2
  /\ summary.counts[sdShardCount] >= 1
  /\ SumSeq(summary.counts) = summary.totalKeys

\* C9: maxCount is the largest per-shard count and maxShard is the lowest
\* shard index whose count equals maxCount.
C9_MaxIsLowestLargest ==
  SummaryCalled =>
    /\ summary.maxCount.kind = "int"
    /\ summary.maxShard \in 0..(sdShardCount - 1)
    /\ \A i \in 1..sdShardCount : summary.counts[i] <= summary.maxCount.value
    /\ summary.counts[summary.maxShard + 1] = summary.maxCount.value
    /\ \A i \in 1..summary.maxShard : summary.counts[i] < summary.maxCount.value

\* a tie: a later shard holds the same non-zero count as maxShard
C9_Witness ==
  /\ SummaryCalled
  /\ summary.maxCount.kind = "int"
  /\ summary.maxCount.value >= 2
  /\ summary.maxShard >= 1
  /\ \E i \in (summary.maxShard + 2)..sdShardCount :
       summary.counts[i] = summary.maxCount.value

(***************************************************************************)
(* The claims about the scanner and the generation, under SpecScan         *)
(***************************************************************************)
Scanning == scan.pc \in {"start", "main", "class", "quant", "digits1", "digits2"}

\* C6: a pattern that holds "(", ")" or "|" at any position is rejected with
\* the unsupported-syntax error before any character is scanned, whatever
\* other defect it has: the cursor has not moved, no piece is pushed and no
\* loop iteration has run.
C6_GroupsRejectedFirst ==
  ((\E k \in 1..Len(pattern) : pattern[k] = "(" \/ pattern[k] = ")" \/ pattern[k] = "|")
     /\ scan.pc # "start") =>
    /\ scan.pc = "threw"
    /\ scan.error = "Groups and alternation are not supported in this generator"
    /\ scan.i = 0
    /\ scan.pieces = <<>>
    /\ iters = 0
    /\ out = <<>>

\* a pattern with "|" inside a bracket class, rejected
C6_Witness ==
  /\ pattern = <<"[", "a", "|", "b", "]", "*">>
  /\ scan.pc = "threw"
  /\ scan.i = 0

\* C7: every piece the scanner pushes has 0 <= min <= max <= 100000, and a
\* quantifier with max < min or max > 100000 is rejected with an
\* invalid-quantifier error.
C7_PieceBounds ==
  /\ \A k \in 1..Len(scan.pieces) :
       /\ 0 <= scan.pieces[k].min
       /\ scan.pieces[k].min <= scan.pieces[k].max
       /\ scan.pieces[k].max <= 100000
  /\ (scan.pc = "threw" /\ scan.error = "Invalid quantifier bounds") => scan.max < scan.min
  /\ (scan.pc = "threw" /\ scan.error = "Quantifier too large") =>
       (scan.min <= scan.max /\ scan.max > 100000)
  /\ (scan.pc \in {"main", "parsed", "done"} /\ scan.pieces # <<>>) =>
       (scan.pieces[Len(scan.pieces)].min = scan.min
        /\ scan.pieces[Len(scan.pieces)].max = scan.max)

\* the open-ended quantifier {99984,} accepted with max = 100000
C7_Witness ==
  /\ scan.pc = "parsed"
  /\ Len(scan.pieces) = 1
  /\ scan.pieces[1].min = 99984
  /\ scan.pieces[1].max = 100000

\* the alphabet of an atom, as a set
AlphabetOf(atom) ==
  CASE atom.kind = "literal" -> {atom.value}
    [] atom.kind = "charclass" -> {atom.chars[k] : k \in 1..Len(atom.chars)}
    [] atom.kind = "digit" -> {fromCharCode(c) : c \in charCodeAt("0")..charCodeAt("9")}
    [] atom.kind = "word" ->
         {fromCharCode(c) : c \in (charCodeAt("a")..charCodeAt("z"))
                                    \cup (charCodeAt("A")..charCodeAt("Z"))
                                    \cup (charCodeAt("0")..charCodeAt("9"))} \cup {"_"}
    [] atom.kind = "space" -> {" ", "\t"}

\* str is one block per piece from the k-th piece on: each block's length
\* lies in [min, max] and its characters belong to the piece's alphabet
RECURSIVE MatchesFrom(_, _, _)
MatchesFrom(str, pieces, k) ==
  IF k > Len(pieces) THEN str = <<>>
  ELSE \E len \in pieces[k].min..pieces[k].max :
         /\ len <= Len(str)
         /\ \A j \in 1..len : str[j] \in AlphabetOf(pieces[k].atom)
         /\ MatchesFrom(SubSeq(str, len + 1, Len(str)), pieces, k + 1)

RECURSIVE SumMin(_)
SumMin(pieces) == IF pieces = <<>> THEN 0 ELSE Head(pieces).min + SumMin(Tail(pieces))
RECURSIVE SumMax(_)
SumMax(pieces) == IF pieces = <<>> THEN 0 ELSE Head(pieces).max + SumMax(Tail(pieces))

\* C8: the generated string is the concatenation, in piece order, of one
\* block per piece, of a length in the piece's [min, max] and of characters
\* of the piece's alphabet; its length lies between the sum of the mins and
\* the sum of the maxes.
C8_OutputMatchesPieces ==
  scan.pc = "done" =>
    /\ MatchesFrom(out, scan.pieces, 1)
    /\ SumMin(scan.pieces) <= Len(out)
    /\ Len(out) <= SumMax(scan.pieces)

\* a{2}b?[ab]{1,2} generated at its full length, the class drawing both its
\* characters
C8_Witness ==
  /\ pattern = <<"a", "{", "2", "}", "b", "?", "[", "a", "b", "]", "{", "1", ",", "2", "}">>
  /\ scan.pc = "done"
  /\ out = <<"a", "a", "b", "b", "a">>

\* C10: the scan terminates.  Every step leaves the cursor where it is or
\* moves it forward, never past the end of the pattern; every iteration of
\* the main loop, of the class loop and of a digit loop that does not throw
\* moves it forward; the loops run at most pattern-length iterations in all,
\* each one that does not throw consuming a character of its own; and the
\* scan reaches the end of the pattern or an error.
C10_ScanTerminates ==
  /\ [][Scanning =>
          /\ scan'.i >= scan.i
          /\ scan'.i <= Len(pattern)
          /\ (IsIteration(pattern, scan) /\ scan'.pc # "threw") => scan'.i > scan.i
          /\ iters' <= Len(pattern)
          /\ scan'.pc # "threw" => iters' <= scan'.i]_vars
  /\ <>(scan.pc \in {"parsed", "done", "threw"})

\* [ab]{1,2} scanned to its end: one iteration per character but "{", ","
\* and "}"
C10_Witness ==
  /\ pattern = <<"[", "a", "b", "]", "{", "1", ",", "2", "}">>
  /\ scan.pc = "parsed"
  /\ scan.i = Len(pattern)
  /\ iters = 6

(***************************************************************************)
(* The claims about generateMany, under SpecMany                           *)
(***************************************************************************)
ManyCalled == gm.pc # "idle"

\* C3: for every pattern the scanner rejects and every count, 0 and the
\* negative counts included, generateMany throws the scanner's error before
\* any string is generated and never returns a list.
C3_InvalidPatternThrows ==
  (ManyCalled /\ compile(pattern).pc = "threw") =>
    /\ gm.pc # "returned"
    /\ gm.outLen = 0
    /\ gm.pc = "threw" => gm.error = compile(pattern).error

RECURSIVE IntOfNat(_)
IntOfNat(a) == IF a = <<>> THEN 0 ELSE Head(a) + LimbBase * IntOfNat(Tail(a))

\* min(50000, max(0, floor(c))) of a number c that is not NaN
ExpectedLength(c) ==
  CASE c.kind = "Infinity" -> 50000
    [] c.kind = "-Infinity" -> 0
    [] c.neg -> 0
    [] OTHER -> IF NatLess(NatOfInt(50000), c.int) THEN 50000 ELSE IntOfNat(c.int)

\* C5: for every pattern the scanner accepts and every count that is a
\* number (not NaN), generateMany throws nothing and returns exactly
\* min(50000, max(0, floor(count))) strings.
C5_ClampedLength ==
  (ManyCalled /\ compile(pattern).pc = "parsed" /\ count.kind # "NaN") =>
    /\ gm.pc # "threw"
    /\ gm.outLen = gm.i
    /\ gm.outLen <= ExpectedLength(count)
    /\ gm.pc = "returned" => gm.outLen = ExpectedLength(count)

\* generateMany("a?", 999999) returned 50000 strings
C5_Witness ==
  /\ pattern = <<"a", "?">>
  /\ count = NumOfInt(999999)
  /\ gm.pc = "returned"
  /\ gm.outLen = 50000

====
